---- MODULE Spec2Model ----
(***************************************************************************)
(* Model of the kitty-fb Firestore service (services/firestore.ts and      *)
(* utils/validators.ts).  Every exported service function is an async      *)
(* function: each `await` of a Firestore read or write is one atomic step  *)
(* of the call, and the writes handed to one Promise.all are in flight     *)
(* together and land in any order.  A call is a process p with a program   *)
(* counter proc[p].pc, its arguments and its local variables.  A deny      *)
(* request goes through the route's validation of its body first.          *)
(***************************************************************************)
EXTENDS Integers, Sequences, FiniteSets, Bags, TLC

(* ------------------------------ bounds -------------------------------- *)
\* Spec (every operation): units bought + kitty + debt + join requests.
MaxSize == 2
\* BucketSpec (purchase and consume): units bought.
MaxUnits == 3
\* The specifications of overlapping calls: units bought + kitty.
MaxRace == 2
\* AdjustRaceSpec (balance adjustments that overlap): debt.
MaxDebt == 1
\* MemberRaceSpec (a member's operations while joins are in flight): units
\* bought + kitty + debt.
MaxMember == 1

(* ------------------------------ universe ------------------------------ *)
UserIds == {"u1", "u2"}
GroupIds == {"g1"}
Procs == {1, 2}
BucketIds == 1..(MaxSize + MaxUnits + MaxRace + MaxMember)
RequestIds == 1..(MaxSize + 1)
NullId == 0

VARIABLES
  users,         \* users/{u}: the ids of the user documents
  groups,        \* groups/{g}: exists, kittyBalance
  userGroups,    \* users/{u}/groups/{g}: the user-side membership mirror
  groupMembers,  \* groups/{g}/members/{u}: the group-side membership mirror
  buckets,       \* groups/{g}/buckets/{id}
  consumption,   \* groups/{g}/consumption: a bag of records
  transactions,  \* groups/{g}/transactions: a bag of records
  joinRequests,  \* groups/{g}/join_requests/{id}
  now,           \* the latest value new Date() has returned
  proc,          \* the calls in flight: arguments, locals, pc, result
  pre            \* the database as it was when the calls in flight began

vars == <<users, groups, userGroups, groupMembers, buckets, consumption,
          transactions, joinRequests, now, proc, pre>>

dbvars == <<users, groups, userGroups, groupMembers, buckets, consumption,
            transactions, joinRequests>>

DB == [users |-> users, groups |-> groups, userGroups |-> userGroups,
       groupMembers |-> groupMembers, buckets |-> buckets,
       consumption |-> consumption, transactions |-> transactions,
       joinRequests |-> joinRequests]

(* ------------------------------ documents ----------------------------- *)
NoGroup == [exists |-> FALSE, kittyBalance |-> 0]
NoMember == [exists |-> FALSE, activeBucketId |-> NullId, balance |-> 0,
             isAdmin |-> FALSE, joinedAt |-> 0]
NoBucket == [exists |-> FALSE, groupId |-> "", userId |-> "",
             unitsInBucket |-> 0, remainingUnits |-> 0, status |-> "",
             purchasedAt |-> 0]
NoRequest == [exists |-> FALSE, groupId |-> "", userId |-> "",
              status |-> "", adminUserId |-> "", processedAt |-> 0,
              reason |-> ""]

Idle == [op |-> "none", pc |-> "idle", g |-> "", u |-> "", a |-> "",
         flag |-> "absent", x |-> 0, y |-> 0, rid |-> NullId, reason |-> "",
         act |-> NullId, val |-> 0, adm |-> FALSE, ids |-> <<>>,
         pend |-> {}, result |-> "", report |-> 0]

Write(k, id, v, t, b) == [k |-> k, id |-> id, v |-> v, t |-> t, b |-> b]

Init ==
  /\ users = {}
  /\ groups = [g \in GroupIds |-> NoGroup]
  /\ userGroups = [m \in UserIds \X GroupIds |-> NoMember]
  /\ groupMembers = [m \in UserIds \X GroupIds |-> NoMember]
  /\ buckets = [b \in BucketIds |-> NoBucket]
  /\ consumption = EmptyBag
  /\ transactions = EmptyBag
  /\ joinRequests = [r \in RequestIds |-> NoRequest]
  /\ now = 0
  /\ proc = [p \in Procs |-> Idle]
  /\ pre = [users |-> {},
            groups |-> [g \in GroupIds |-> NoGroup],
            userGroups |-> [m \in UserIds \X GroupIds |-> NoMember],
            groupMembers |-> [m \in UserIds \X GroupIds |-> NoMember],
            buckets |-> [b \in BucketIds |-> NoBucket],
            consumption |-> EmptyBag,
            transactions |-> EmptyBag,
            joinRequests |-> [r \in RequestIds |-> NoRequest]]

(* ------------------------------ scheduling ---------------------------- *)
Running(p) == proc[p].pc \notin {"idle", "done"}
Quiet == \A p \in Procs : ~Running(p)
Fresh(p) == proc[p].pc = "idle"

Fail(p, c, err) == proc' = [proc EXCEPT ![p] = [c EXCEPT !.pc = "done", !.result = err]]
Goto(p, c, pc) == proc' = [proc EXCEPT ![p] = [c EXCEPT !.pc = pc]]

(* ------------------------------ validators ---------------------------- *)
validateGroupExists(g) == groups[g].exists

validateUserGroupMembership_EitherMirror(u, g) ==
  ~(~userGroups[<<u, g>>].exists /\ ~groupMembers[<<u, g>>].exists)

validateUserGroupMembership(u, g) ==
  ~(~userGroups[<<u, g>>].exists \/ ~groupMembers[<<u, g>>].exists)

validateUserNotInGroup_NoCheck(u, g) == TRUE

validateUserNotInGroup(u, g) ==
  ~(userGroups[<<u, g>>].exists \/ groupMembers[<<u, g>>].exists)

Members(g) == {u \in UserIds : groupMembers[<<u, g>>].exists}

AdminMembers(g) == {u \in Members(g) : groupMembers[<<u, g>>].isAdmin = TRUE}

validateSingleAdmin_NoCheck(g, isAdmin) == "ok"

validateSingleAdmin_ExactlyOne(g, isAdmin) ==
  IF isAdmin /\ Cardinality(AdminMembers(g)) > 0 THEN "AdminConflict"
  ELSE IF ~isAdmin /\ Cardinality(AdminMembers(g)) # 1 THEN "MustHaveAdmin"
  ELSE "ok"

validateSingleAdmin(g, isAdmin) ==
  IF isAdmin /\ Cardinality(AdminMembers(g)) > 0 THEN "AdminConflict"
  ELSE IF ~isAdmin /\ Cardinality(AdminMembers(g)) = 0 THEN "MustHaveAdmin"
  ELSE "ok"

(* ------------------------------ writes -------------------------------- *)
\* The database after one Firestore set()/update() of call c has landed.
ApplyWrite(db, c, w) ==
  LET m == <<c.u, c.g>> IN
  [userGroups |->
     IF w.k = "ugSet"
       THEN [db.userGroups EXCEPT ![m] = [exists |-> TRUE,
               activeBucketId |-> NullId, balance |-> 0, isAdmin |-> w.b,
               joinedAt |-> w.t]]
     ELSE IF w.k = "ugActive"
       THEN [db.userGroups EXCEPT ![m].activeBucketId = w.id]
     ELSE IF w.k = "ugBalance"
       THEN [db.userGroups EXCEPT ![m].balance = w.v]
     ELSE db.userGroups,
   groupMembers |->
     IF w.k = "gmSet"
       THEN [db.groupMembers EXCEPT ![m] = [exists |-> TRUE,
               activeBucketId |-> NullId, balance |-> 0, isAdmin |-> w.b,
               joinedAt |-> w.t]]
     ELSE IF w.k = "gmActive"
       THEN [db.groupMembers EXCEPT ![m].activeBucketId = w.id]
     ELSE IF w.k = "gmBalance"
       THEN [db.groupMembers EXCEPT ![m].balance = w.v]
     ELSE db.groupMembers,
   buckets |->
     IF w.k = "bucketSet"
       THEN [db.buckets EXCEPT ![w.id] = [exists |-> TRUE, groupId |-> c.g,
               userId |-> c.u, unitsInBucket |-> w.v,
               remainingUnits |-> w.v, status |-> "active",
               purchasedAt |-> w.t]]
     ELSE IF w.k = "bucketUpdate"
       THEN [db.buckets EXCEPT ![w.id].remainingUnits = w.v,
                               ![w.id].status = IF w.b THEN "completed" ELSE @]
     ELSE db.buckets,
   consumption |->
     IF w.k = "consumptionSet"
       THEN db.consumption (+) SetToBag({[groupId |-> c.g, userId |-> c.u,
                                          units |-> w.v, bucketId |-> w.id]})
     ELSE db.consumption,
   transactions |->
     IF w.k = "transactionSet"
       THEN db.transactions (+) SetToBag({[groupId |-> c.g, userId |-> c.u,
                                           amount |-> w.v, comment |-> c.reason]})
     ELSE db.transactions,
   groups |->
     IF w.k = "groupKitty"
       THEN [db.groups EXCEPT ![c.g].kittyBalance = w.v]
     ELSE db.groups,
   joinRequests |-> db.joinRequests,
   users |-> db.users]

RECURSIVE ApplyWrites(_, _, _)
ApplyWrites(db, c, W) ==
  IF W = {} THEN db
  ELSE LET w == CHOOSE w \in W : TRUE IN
       ApplyWrites(ApplyWrite(db, c, w), c, W \ {w})

Store(db) ==
  /\ users' = db.users
  /\ groups' = db.groups
  /\ userGroups' = db.userGroups
  /\ groupMembers' = db.groupMembers
  /\ buckets' = db.buckets
  /\ consumption' = db.consumption
  /\ transactions' = db.transactions
  /\ joinRequests' = db.joinRequests

\* The writes of call p that are in flight, W of them landing in this step.
\* The call returns when the last write of its final Promise.all has landed.
Land(p, W) ==
  /\ proc[p].pc \in {"writes", "con_query"}
  /\ W # {}
  /\ Store(ApplyWrites(DB, proc[p], W))
  /\ proc' = [proc EXCEPT ![p].pend = @ \ W,
                ![p].pc = IF proc[p].pc = "writes" /\ proc[p].pend = W
                            THEN "done" ELSE @,
                ![p].result = IF proc[p].pc = "writes" /\ proc[p].pend = W
                                THEN "ok" ELSE @]
  /\ UNCHANGED <<now, pre>>

\* One write lands: the writes of a Promise.all land in any order, and calls
\* that overlap see the database between them.
WriteLands(p) == \E w \in proc[p].pend : Land(p, {w})

\* While no other call is in flight no call can see the database between
\* the writes of one Promise.all (they go to different documents), and they
\* are taken to land in one step.
WritesLand(p) == Land(p, proc[p].pend)

\* The caller has seen the results; the next calls start from this database.
Return ==
  /\ Quiet
  /\ \E p \in Procs : proc[p].pc = "done"
  /\ proc' = [p \in Procs |-> Idle]
  /\ pre' = DB
  /\ UNCHANGED <<dbvars, now>>

(* ------------------------------ calls of the validators -------------- *)
\* A validator called on its own: it reads, and returns or throws.
Validated(p, op, u, g, isAdmin, result) ==
  /\ Fresh(p)
  /\ proc' = [proc EXCEPT ![p] = [Idle EXCEPT !.op = op, !.u = u, !.g = g,
                                    !.adm = isAdmin, !.pc = "done",
                                    !.result = result]]
  /\ UNCHANGED <<dbvars, now, pre>>

CallValidateSingleAdmin(p) ==
  \E g \in GroupIds, isAdmin \in BOOLEAN :
    Validated(p, "validateSingleAdmin", "", g, isAdmin,
              validateSingleAdmin(g, isAdmin))

CallValidateUserGroupMembership(p) ==
  \E u \in UserIds, g \in GroupIds :
    Validated(p, "validateUserGroupMembership", u, g, FALSE,
              IF validateUserGroupMembership(u, g) THEN "ok" ELSE "NotMember")

(* ------------------------------ createUser ---------------------------- *)
\* The new document gets an id no user document has.
createUser(p, u) ==
  /\ Fresh(p)
  /\ u \notin users
  /\ users' = users \cup {u}
  /\ proc' = [proc EXCEPT ![p] = [Idle EXCEPT !.op = "createUser", !.u = u,
                                    !.pc = "done", !.result = "ok"]]
  /\ UNCHANGED <<groups, userGroups, groupMembers, buckets, consumption,
                 transactions, joinRequests, now, pre>>

(* ------------------------------ createGroup --------------------------- *)
createGroup(p, g) ==
  /\ Fresh(p)
  /\ ~groups[g].exists
  /\ groups' = [groups EXCEPT ![g] = [exists |-> TRUE, kittyBalance |-> 0]]
  /\ proc' = [proc EXCEPT ![p] = [Idle EXCEPT !.op = "createGroup", !.g = g,
                                    !.pc = "done", !.result = "ok"]]
  /\ UNCHANGED <<users, userGroups, groupMembers, buckets, consumption,
                 transactions, joinRequests, now, pre>>

(* ------------------------------ addUserToGroup ------------------------ *)
JoinWrites_GroupSideNotAdmin(shouldBeAdmin, userSideAt, groupSideAt) ==
  {Write("ugSet", NullId, 0, userSideAt, shouldBeAdmin),
   Write("gmSet", NullId, 0, groupSideAt, FALSE)}

\* Lines 271-288.  The two documents are built in one synchronous step, and
\* their joinedAt is taken to be the same instant, later than any instant an
\* earlier new Date() has returned.
JoinWrites(shouldBeAdmin, userSideAt, groupSideAt) ==
  {Write("ugSet", NullId, 0, userSideAt, shouldBeAdmin),
   Write("gmSet", NullId, 0, groupSideAt, shouldBeAdmin)}

JoinSet(p, shouldBeAdmin) ==
  /\ proc' = [proc EXCEPT ![p].adm = shouldBeAdmin, ![p].pc = "writes",
                ![p].pend = JoinWrites(shouldBeAdmin, now + 1, now + 1)]
  /\ now' = now + 1

JoinValidate(p, c) ==
  /\ IF validateUserNotInGroup(c.u, c.g)
       THEN Goto(p, c, "join_members")
       ELSE Fail(p, c, "MembershipExists")
  /\ UNCHANGED <<dbvars, now, pre>>

addUserToGroup(p, u, g, flag) ==
  /\ Fresh(p)
  /\ JoinValidate(p, [Idle EXCEPT !.op = "join", !.u = u, !.g = g,
                                  !.flag = flag])

addUserToGroup_members_AsRequested(p) ==
  LET c == proc[p] IN
  /\ c.pc = "join_members"
  /\ IF Members(c.g) # {} /\ c.flag = "true"
       THEN Goto(p, c, "join_vsa") /\ UNCHANGED now
       ELSE JoinSet(p, c.flag = "true")
  /\ UNCHANGED <<dbvars, pre>>

addUserToGroup_members(p) ==
  LET c == proc[p] IN
  /\ c.pc = "join_members"
  /\ IF Members(c.g) = {}
       THEN JoinSet(p, TRUE)
       ELSE IF c.flag = "true"
         THEN Goto(p, c, "join_vsa") /\ UNCHANGED now
         ELSE JoinSet(p, FALSE)
  /\ UNCHANGED <<dbvars, pre>>

addUserToGroup_validateSingleAdmin_Skipped(p) ==
  /\ proc[p].pc = "join_vsa"
  /\ JoinSet(p, TRUE)
  /\ UNCHANGED <<dbvars, pre>>

addUserToGroup_validateSingleAdmin(p) ==
  LET c == proc[p] IN
  /\ c.pc = "join_vsa"
  /\ IF validateSingleAdmin(c.g, TRUE) = "ok"
       THEN JoinSet(p, TRUE)
       ELSE Fail(p, c, validateSingleAdmin(c.g, TRUE)) /\ UNCHANGED now
  /\ UNCHANGED <<dbvars, pre>>

(* ------------------------------ purchaseBuckets ----------------------- *)
IssuedBucketIds ==
  {b \in BucketIds : buckets[b].exists}
    \cup {w.id : w \in {x \in UNION {proc[q].pend : q \in Procs} :
                          x.k = "bucketSet"}}

\* Line 355: currentActiveBucketId || bucketIds[0].
NewActiveBucketId_AlwaysFirst(currentActiveBucketId, bucketIds) == bucketIds[1]

NewActiveBucketId_KeepsCurrent(currentActiveBucketId, bucketIds) ==
  currentActiveBucketId

NewActiveBucketId(currentActiveBucketId, bucketIds) ==
  IF currentActiveBucketId # NullId THEN currentActiveBucketId
  ELSE bucketIds[1]

InjSeqs(S, k) ==
  {s \in [1..k -> S] : \A i, j \in 1..k : i # j => s[i] # s[j]}

purchaseBuckets(p, g, u, bucketCount, unitsPerBucket) ==
  /\ Fresh(p)
  /\ LET c == [Idle EXCEPT !.op = "purchase", !.g = g, !.u = u,
                           !.x = bucketCount, !.y = unitsPerBucket] IN
       IF validateUserGroupMembership(u, g)
         THEN Goto(p, c, "pur_read")
         ELSE Fail(p, c, "NotMember")
  /\ UNCHANGED <<dbvars, now, pre>>

\* Lines 325-367.  Document ids are random strings, and all the program
\* ever observes of them is their order, which breaks the ties of purchasedAt
\* in the query of recordConsumption.  The model names the new documents
\* n+1..n+k in that order: the bucket created first (bucketIds[1]) is any of
\* those that share the earliest purchasedAt.  new Date() does not go back;
\* it may return the same value for several buckets of one call, and returns
\* a later value than any earlier call has seen.
purchaseBuckets_read(p) ==
  LET c == proc[p]
      currentActiveBucketId == userGroups[<<c.u, c.g>>].activeBucketId
      n == Cardinality(IssuedBucketIds)
  IN
  /\ c.pc = "pur_read"
  /\ \E ticks \in SUBSET (2..c.x) :
       LET purchasedAt == [i \in 1..c.x |->
                             now + 1 + Cardinality({j \in ticks : j <= i})]
       IN
       \E bucketIds \in InjSeqs((n + 1)..(n + c.x), c.x) :
         /\ \A i, j \in 1..c.x :
              purchasedAt[i] < purchasedAt[j] => bucketIds[i] < bucketIds[j]
         /\ LET newActiveBucketId ==
                  NewActiveBucketId(currentActiveBucketId, bucketIds)
            IN
            proc' = [proc EXCEPT ![p].pc = "writes", ![p].ids = bucketIds,
                      ![p].act = currentActiveBucketId,
                      ![p].pend =
                        {Write("bucketSet", bucketIds[i], c.y, purchasedAt[i],
                               FALSE) : i \in 1..c.x}
                        \cup {Write("ugActive", newActiveBucketId, 0, 0, FALSE),
                              Write("gmActive", newActiveBucketId, 0, 0, FALSE)}]
         /\ now' = purchasedAt[c.x]
  /\ UNCHANGED <<dbvars, pre>>

(* ------------------------------ recordConsumption --------------------- *)
\* The query of lines 543-548: this user's buckets with status "active" in
\* the group, ordered by purchasedAt ascending and then by document id.
ActiveBucketsQuery(g, u) ==
  {b \in BucketIds : /\ buckets[b].exists
                     /\ buckets[b].groupId = g
                     /\ buckets[b].userId = u
                     /\ buckets[b].status = "active"}

Before_Descending(a, b) ==
  \/ buckets[a].purchasedAt > buckets[b].purchasedAt
  \/ buckets[a].purchasedAt = buckets[b].purchasedAt /\ a < b

Before(a, b) ==
  \/ buckets[a].purchasedAt < buckets[b].purchasedAt
  \/ buckets[a].purchasedAt = buckets[b].purchasedAt /\ a < b

RECURSIVE OrderByPurchasedAt(_)
OrderByPurchasedAt(S) ==
  IF S = {} THEN <<>>
  ELSE LET first == CHOOSE a \in S : \A b \in S \ {a} : Before(a, b) IN
       <<first>> \o OrderByPurchasedAt(S \ {first})

\* The loop of lines 550-560.
NextActiveBucket_None(docs, currentActiveBucketId) == NullId

RECURSIVE NextActiveBucket_KeepsCurrent(_, _)
NextActiveBucket_KeepsCurrent(docs, currentActiveBucketId) ==
  IF docs = <<>> THEN NullId
  ELSE IF buckets[Head(docs)].remainingUnits > 0
    THEN Head(docs)
    ELSE NextActiveBucket_KeepsCurrent(Tail(docs), currentActiveBucketId)

RECURSIVE NextActiveBucket(_, _)
NextActiveBucket(docs, currentActiveBucketId) ==
  IF docs = <<>> THEN NullId
  ELSE IF Head(docs) # currentActiveBucketId
          /\ buckets[Head(docs)].remainingUnits > 0
    THEN Head(docs)
    ELSE NextActiveBucket(Tail(docs), currentActiveBucketId)

\* Lines 507 and 515.
InsufficientUnits_OffByOne(currentRemainingUnits, units) ==
  currentRemainingUnits + 1 < units

InsufficientUnits(currentRemainingUnits, units) == currentRemainingUnits < units

NewRemainingUnits_WritesUnits(currentRemainingUnits, units) == units

NewRemainingUnits(currentRemainingUnits, units) == currentRemainingUnits - units

recordConsumption(p, g, u, units) ==
  /\ Fresh(p)
  /\ LET c == [Idle EXCEPT !.op = "consume", !.g = g, !.u = u, !.x = units] IN
       IF validateUserGroupMembership(u, g)
         THEN Goto(p, c, "con_read")
         ELSE Fail(p, c, "NotMember")
  /\ UNCHANGED <<dbvars, now, pre>>

recordConsumption_read(p) ==
  LET c == proc[p]
      currentActiveBucketId == userGroups[<<c.u, c.g>>].activeBucketId
  IN
  /\ c.pc = "con_read"
  /\ IF currentActiveBucketId = NullId
       THEN Fail(p, c, "NoActiveBucket")
       ELSE proc' = [proc EXCEPT ![p].act = currentActiveBucketId,
                                 ![p].pc = "con_bucket"]
  /\ UNCHANGED <<dbvars, now, pre>>

recordConsumption_bucket(p) ==
  LET c == proc[p]
      currentRemainingUnits == buckets[c.act].remainingUnits
      newRemainingUnits == NewRemainingUnits(currentRemainingUnits, c.x)
  IN
  /\ c.pc = "con_bucket"
  /\ IF ~(buckets[c.act].exists /\ buckets[c.act].groupId = c.g)
       THEN Fail(p, c, "BucketNotFound")
     ELSE IF InsufficientUnits(currentRemainingUnits, c.x)
       THEN Fail(p, c, "InsufficientUnits")
     ELSE IF newRemainingUnits = 0
       THEN proc' = [proc EXCEPT ![p].val = newRemainingUnits,
                       ![p].pc = "con_query",
                       ![p].pend = {Write("consumptionSet", c.act, c.x, 0, FALSE),
                                    Write("bucketUpdate", c.act, 0, 0, TRUE)}]
     ELSE proc' = [proc EXCEPT ![p].val = newRemainingUnits,
                     ![p].pc = "writes",
                     ![p].pend = {Write("consumptionSet", c.act, c.x, 0, FALSE),
                                  Write("bucketUpdate", c.act,
                                        newRemainingUnits, 0, FALSE)}]
  /\ UNCHANGED <<dbvars, now, pre>>

recordConsumption_query(p) ==
  LET c == proc[p]
      nextActiveBucketId ==
        NextActiveBucket(OrderByPurchasedAt(ActiveBucketsQuery(c.g, c.u)), c.act)
  IN
  /\ c.pc = "con_query"
  /\ proc' = [proc EXCEPT ![p].pc = "writes",
                ![p].pend = @ \cup
                  {Write("ugActive", nextActiveBucketId, 0, 0, FALSE),
                   Write("gmActive", nextActiveBucketId, 0, 0, FALSE)}]
  /\ UNCHANGED <<dbvars, now, pre>>

(* ------------------------------ validateUserIsGroupAdmin -------------- *)
\* Where a call goes on after validateUserIsGroupAdmin has passed.
AfterAdminCheck(op) ==
  IF op = "adjust" THEN "bal_read"
  ELSE IF op = "approve" THEN "apr_update"
  ELSE "deny_update"

validateUserIsGroupAdmin_membership(p) ==
  LET c == proc[p] IN
  /\ c.pc = "adm_member"
  /\ IF validateUserGroupMembership(c.a, c.g)
       THEN Goto(p, c, "adm_flag")
       ELSE Fail(p, c, "NotMember")
  /\ UNCHANGED <<dbvars, now, pre>>

validateUserIsGroupAdmin_isAdmin_Skipped(p) ==
  /\ proc[p].pc = "adm_flag"
  /\ Goto(p, proc[p], AfterAdminCheck(proc[p].op))
  /\ UNCHANGED <<dbvars, now, pre>>

validateUserIsGroupAdmin_isAdmin(p) ==
  LET c == proc[p] IN
  /\ c.pc = "adm_flag"
  /\ IF ~groupMembers[<<c.a, c.g>>].isAdmin
       THEN Fail(p, c, "NotAdmin")
       ELSE Goto(p, c, AfterAdminCheck(c.op))
  /\ UNCHANGED <<dbvars, now, pre>>

(* ------------------------------ updateUserBalance --------------------- *)
RECURSIVE SumOver(_, _)
SumOver(f, S) ==
  IF S = {} THEN 0
  ELSE LET e == CHOOSE e \in S : TRUE IN f[e] + SumOver(f, S \ {e})

\* Debt that balance updates in flight may still add.
DebtInFlight ==
  SumOver([q \in Procs |-> IF proc[q].op = "adjust" /\ Running(q)
                                /\ proc[q].x < 0 THEN -proc[q].x ELSE 0], Procs)

\* Line 432: Math.abs(currentBalance), the maximum payment the error reports.
Abs(n) == IF n < 0 THEN -n ELSE n

\* Line 429: the balance may not become positive.
PositiveBalance_Never(newBalance) == FALSE

PositiveBalance_OffByOne(newBalance) == newBalance > 1

PositiveBalance(newBalance) == newBalance > 0

updateUserBalance(p, g, u, amount, adminUserId) ==
  /\ Fresh(p)
  /\ LET c == [Idle EXCEPT !.op = "adjust", !.g = g, !.u = u, !.x = amount,
                           !.a = adminUserId] IN
       IF validateUserGroupMembership(u, g)
         THEN Goto(p, c, "adm_member")
         ELSE Fail(p, c, "NotMember")
  /\ UNCHANGED <<dbvars, now, pre>>

updateUserBalance_read_TakesFromKitty(p) ==
  LET c == proc[p]
      newBalance == userGroups[<<c.u, c.g>>].balance + c.x
  IN
  /\ c.pc = "bal_read"
  /\ IF c.x = 0 \/ newBalance > 0
       THEN Fail(p, c, "Rejected")
       ELSE proc' = [proc EXCEPT ![p].pc = "writes",
                       ![p].pend = {Write("ugBalance", NullId, newBalance, 0, FALSE),
                                    Write("gmBalance", NullId, newBalance, 0, FALSE),
                                    Write("groupKitty", NullId, newBalance, 0, FALSE)}]
  /\ UNCHANGED <<dbvars, now, pre>>

updateUserBalance_read(p) ==
  LET c == proc[p]
      currentBalance == userGroups[<<c.u, c.g>>].balance
      newBalance == currentBalance + c.x
  IN
  /\ c.pc = "bal_read"
  /\ IF c.x = 0
       THEN Fail(p, c, "ZeroAmount")
     ELSE IF PositiveBalance(newBalance)
       THEN Fail(p, [c EXCEPT !.val = currentBalance,
                              !.report = Abs(currentBalance)],
                 "PositiveBalanceRejected")
     ELSE proc' = [proc EXCEPT ![p].val = currentBalance, ![p].pc = "writes",
                     ![p].pend = {Write("ugBalance", NullId, newBalance, 0, FALSE),
                                  Write("gmBalance", NullId, newBalance, 0, FALSE)}]
  /\ UNCHANGED <<dbvars, now, pre>>

(* ------------------------------ createKittyTransaction ---------------- *)
KittyInFlight ==
  SumOver([q \in Procs |-> IF proc[q].op = "contribute" /\ Running(q)
                             THEN proc[q].x ELSE 0], Procs)

createKittyTransaction_NoAmountCheck(p, g, u, amount, comment) ==
  /\ Fresh(p)
  /\ LET c == [Idle EXCEPT !.op = "contribute", !.g = g, !.u = u,
                 !.x = amount,
                 !.reason = IF comment = "absent" THEN "" ELSE comment] IN
       IF ~validateUserGroupMembership(u, g)
         THEN Fail(p, c, "NotMember")
         ELSE Goto(p, c, "kit_group")
  /\ UNCHANGED <<dbvars, now, pre>>

createKittyTransaction(p, g, u, amount, comment) ==
  /\ Fresh(p)
  /\ LET c == [Idle EXCEPT !.op = "contribute", !.g = g, !.u = u,
                 !.x = amount,
                 !.reason = IF comment = "absent" THEN "" ELSE comment] IN
       IF ~validateUserGroupMembership(u, g)
         THEN Fail(p, c, "NotMember")
       ELSE IF amount <= 0
         THEN Fail(p, c, "NonPositiveAmount")
       ELSE Goto(p, c, "kit_group")
  /\ UNCHANGED <<dbvars, now, pre>>

createKittyTransaction_group(p) ==
  LET c == proc[p] IN
  /\ c.pc = "kit_group"
  /\ IF validateGroupExists(c.g)
       THEN Goto(p, c, "kit_read")
       ELSE Fail(p, c, "GroupNotFound")
  /\ UNCHANGED <<dbvars, now, pre>>

\* The kitty balance is raised and no record is written.
createKittyTransaction_read_NoRecord(p) ==
  LET c == proc[p]
      currentKittyBalance == groups[c.g].kittyBalance
      newKittyBalance == currentKittyBalance + c.x
  IN
  /\ c.pc = "kit_read"
  /\ proc' = [proc EXCEPT ![p].val = currentKittyBalance, ![p].pc = "writes",
                ![p].pend = {Write("groupKitty", NullId, newKittyBalance, 0, FALSE)}]
  /\ UNCHANGED <<dbvars, now, pre>>

\* A contribution equal to a recorded one is taken for a repetition of it.
createKittyTransaction_read_Idempotent(p) ==
  LET c == proc[p]
      currentKittyBalance == groups[c.g].kittyBalance
      newKittyBalance == currentKittyBalance + c.x
      recorded == [groupId |-> c.g, userId |-> c.u, amount |-> c.x,
                   comment |-> c.reason] \in BagToSet(transactions)
  IN
  /\ c.pc = "kit_read"
  /\ proc' = [proc EXCEPT ![p].val = currentKittyBalance, ![p].pc = "writes",
                ![p].pend =
                  IF recorded
                    THEN {Write("groupKitty", NullId, currentKittyBalance, 0, FALSE)}
                    ELSE {Write("groupKitty", NullId, newKittyBalance, 0, FALSE),
                          Write("transactionSet", NullId, c.x, 0, FALSE)}]
  /\ UNCHANGED <<dbvars, now, pre>>

createKittyTransaction_read(p) ==
  LET c == proc[p]
      currentKittyBalance == groups[c.g].kittyBalance
      newKittyBalance == currentKittyBalance + c.x
  IN
  /\ c.pc = "kit_read"
  /\ proc' = [proc EXCEPT ![p].val = currentKittyBalance, ![p].pc = "writes",
                ![p].pend = {Write("groupKitty", NullId, newKittyBalance, 0, FALSE),
                             Write("transactionSet", NullId, c.x, 0, FALSE)}]
  /\ UNCHANGED <<dbvars, now, pre>>

(* ------------------------------ join requests ------------------------- *)
PendingRequests(g, u) ==
  {r \in RequestIds : /\ joinRequests[r].exists
                      /\ joinRequests[r].groupId = g
                      /\ joinRequests[r].userId = u
                      /\ joinRequests[r].status = "pending"}

RequestsIssued ==
  Cardinality({r \in RequestIds : joinRequests[r].exists})
    + Cardinality({q \in Procs : proc[q].op = "request" /\ Running(q)})

createJoinRequest(p, g, u) ==
  /\ Fresh(p)
  /\ LET c == [Idle EXCEPT !.op = "request", !.g = g, !.u = u] IN
       IF validateGroupExists(g)
         THEN Goto(p, c, "req_member")
         ELSE Fail(p, c, "GroupNotFound")
  /\ UNCHANGED <<dbvars, now, pre>>

createJoinRequest_member(p) ==
  LET c == proc[p] IN
  /\ c.pc = "req_member"
  /\ IF validateUserNotInGroup(c.u, c.g)
       THEN Goto(p, c, "req_pending")
       ELSE Fail(p, c, "AlreadyMember")
  /\ UNCHANGED <<dbvars, now, pre>>

createJoinRequest_pending_Skipped(p) ==
  /\ proc[p].pc = "req_pending"
  /\ Goto(p, proc[p], "req_set")
  /\ UNCHANGED <<dbvars, now, pre>>

createJoinRequest_pending(p) ==
  LET c == proc[p] IN
  /\ c.pc = "req_pending"
  /\ IF PendingRequests(c.g, c.u) # {}
       THEN Fail(p, c, "DuplicateRequest")
       ELSE Goto(p, c, "req_set")
  /\ UNCHANGED <<dbvars, now, pre>>

createJoinRequest_set(p) ==
  LET c == proc[p]
      id == 1 + Cardinality({r \in RequestIds : joinRequests[r].exists})
  IN
  /\ c.pc = "req_set"
  /\ joinRequests' = [joinRequests EXCEPT ![id] =
       [exists |-> TRUE, groupId |-> c.g, userId |-> c.u,
        status |-> "pending", adminUserId |-> "", processedAt |-> 0,
        reason |-> ""]]
  /\ proc' = [proc EXCEPT ![p].rid = id, ![p].pc = "done", ![p].result = "ok"]
  /\ UNCHANGED <<users, groups, userGroups, groupMembers, buckets,
                 consumption, transactions, now, pre>>

\* The first two reads of approveJoinRequest and of denyJoinRequest.
ProcessRequest(p, op, g, requestId, adminUserId, reason) ==
  /\ Fresh(p)
  /\ LET c == [Idle EXCEPT !.op = op, !.g = g, !.rid = requestId,
                           !.a = adminUserId, !.reason = reason,
                           !.flag = "false"] IN
       IF validateGroupExists(g)
         THEN Goto(p, c, "jr_read")
         ELSE Fail(p, c, "GroupNotFound")
  /\ UNCHANGED <<dbvars, now, pre>>

approveJoinRequest(p, g, requestId, adminUserId, reason) ==
  ProcessRequest(p, "approve", g, requestId, adminUserId,
                 IF reason = "absent" THEN "Approved by admin" ELSE reason)

denyJoinRequest(p, g, requestId, adminUserId, reason) ==
  ProcessRequest(p, "deny", g, requestId, adminUserId, reason)

\* The body of a deny request passes denyJoinRequestSchema: reason is
\* required and may not be the empty string.
denyJoinRequestSchema_ReasonOptional(reason) == TRUE

denyJoinRequestSchema(reason) == reason # "absent" /\ reason # ""

\* POST /groups/:groupId/join-requests/:requestId/deny: the validation
\* middleware answers 400 without calling the controller, or the controller
\* calls denyJoinRequest with the fields of the body.
denyJoinRequestRoute(p, g, requestId, adminUserId, reason) ==
  IF denyJoinRequestSchema(reason)
    THEN denyJoinRequest(p, g, requestId, adminUserId, reason)
    ELSE /\ Fresh(p)
         /\ Fail(p, [Idle EXCEPT !.op = "deny", !.g = g, !.rid = requestId,
                                 !.a = adminUserId, !.reason = reason],
                 "MissingReason")
         /\ UNCHANGED <<dbvars, now, pre>>

ProcessRequest_read_NoStatusCheck(p) ==
  LET c == proc[p]
      requestData == joinRequests[c.rid]
  IN
  /\ c.pc = "jr_read"
  /\ IF ~(requestData.exists /\ requestData.groupId = c.g)
       THEN Fail(p, c, "RequestNotFound")
       ELSE proc' = [proc EXCEPT ![p].u = requestData.userId,
                                 ![p].pc = "adm_member"]
  /\ UNCHANGED <<dbvars, now, pre>>

ProcessRequest_read(p) ==
  LET c == proc[p]
      requestData == joinRequests[c.rid]
  IN
  /\ c.pc = "jr_read"
  /\ IF ~(requestData.exists /\ requestData.groupId = c.g)
       THEN Fail(p, c, "RequestNotFound")
     ELSE IF requestData.status # "pending"
       THEN Fail(p, c, "NotPending")
     ELSE proc' = [proc EXCEPT ![p].u = requestData.userId,
                               ![p].pc = "adm_member"]
  /\ UNCHANGED <<dbvars, now, pre>>

approveJoinRequest_update_StatusOnly(p) ==
  LET c == proc[p] IN
  /\ c.pc = "apr_update"
  /\ joinRequests' = [joinRequests EXCEPT ![c.rid].status = "approved"]
  /\ Goto(p, c, "join_check")
  /\ UNCHANGED <<users, groups, userGroups, groupMembers, buckets,
                 consumption, transactions, now, pre>>

approveJoinRequest_update(p) ==
  LET c == proc[p] IN
  /\ c.pc = "apr_update"
  /\ joinRequests' = [joinRequests EXCEPT ![c.rid].status = "approved",
                        ![c.rid].adminUserId = c.a,
                        ![c.rid].processedAt = now + 1,
                        ![c.rid].reason = c.reason]
  /\ now' = now + 1
  /\ Goto(p, c, "join_check")
  /\ UNCHANGED <<users, groups, userGroups, groupMembers, buckets,
                 consumption, transactions, pre>>

\* approveJoinRequest calls addUserToGroup(userId, groupId, false).
approveJoinRequest_addUserToGroup(p) ==
  /\ proc[p].pc = "join_check"
  /\ JoinValidate(p, proc[p])

denyJoinRequest_update(p) ==
  LET c == proc[p] IN
  /\ c.pc = "deny_update"
  /\ joinRequests' = [joinRequests EXCEPT ![c.rid].status = "denied",
                        ![c.rid].adminUserId = c.a,
                        ![c.rid].processedAt = now + 1,
                        ![c.rid].reason = c.reason]
  /\ now' = now + 1
  /\ proc' = [proc EXCEPT ![p].pc = "done", ![p].result = "ok"]
  /\ UNCHANGED <<users, groups, userGroups, groupMembers, buckets,
                 consumption, transactions, pre>>

(* ------------------------------ specifications ------------------------ *)
Flags == {"true", "false", "absent"}

\* What keeps the model finite: a client starts a call only while the
\* database, with what the calls in flight may still add, has room for what
\* the call may add.  Size counts the units bought, the kitty, the debt and
\* the join requests.
UnitsBought ==
  SumOver([b \in BucketIds |-> buckets[b].unitsInBucket], BucketIds)
    + SumOver([q \in Procs |->
                 IF proc[q].pc = "pur_read" THEN proc[q].x * proc[q].y
                 ELSE SumOver([w \in proc[q].pend |->
                                 IF w.k = "bucketSet" THEN w.v ELSE 0],
                              proc[q].pend)], Procs)

Debt ==
  SumOver([m \in UserIds \X GroupIds |-> -userGroups[m].balance],
          UserIds \X GroupIds) + DebtInFlight

Kitty ==
  SumOver([g \in GroupIds |-> groups[g].kittyBalance], GroupIds) + KittyInFlight

Size == UnitsBought + Debt + Kitty + RequestsIssued

\* The steps of each operation after its first one.
JoinStep(p) ==
  \/ addUserToGroup_members(p)
  \/ addUserToGroup_validateSingleAdmin(p)

ConsumeStep(p) ==
  \/ recordConsumption_read(p)
  \/ recordConsumption_bucket(p)
  \/ recordConsumption_query(p)

AdminStep(p) ==
  \/ validateUserIsGroupAdmin_membership(p)
  \/ validateUserIsGroupAdmin_isAdmin(p)

KittyStep(p) ==
  \/ createKittyTransaction_group(p)
  \/ createKittyTransaction_read(p)

RequestStep(p) ==
  \/ createJoinRequest_member(p)
  \/ createJoinRequest_pending(p)
  \/ createJoinRequest_set(p)

ApproveStep(p) ==
  \/ ProcessRequest_read(p)
  \/ approveJoinRequest_update(p)
  \/ approveJoinRequest_addUserToGroup(p)

BucketStep(p) ==
  \/ JoinStep(p)
  \/ purchaseBuckets_read(p)
  \/ ConsumeStep(p)

LedgerStep(p) ==
  \/ AdminStep(p)
  \/ updateUserBalance_read(p)
  \/ KittyStep(p)
  \/ RequestStep(p)
  \/ ApproveStep(p)
  \/ denyJoinRequest_update(p)

\* The calls a client may make.
CallCreateGroup(p) == \E g \in GroupIds : createGroup(p, g)

CallJoin(p) ==
  \E u \in UserIds, g \in GroupIds, flag \in Flags :
    addUserToGroup(p, u, g, flag)

CallPurchase(p, cap) ==
  LET size == Size IN
  \E u \in UserIds, g \in GroupIds, n \in 1..cap, k \in 1..cap :
    size + n * k <= cap /\ purchaseBuckets(p, g, u, n, k)

CallConsume(p, cap) ==
  \E u \in UserIds, g \in GroupIds, k \in 1..cap :
    recordConsumption(p, g, u, k)

CallAdjust(p, cap) ==
  LET size == Size IN
  \E u \in UserIds, g \in GroupIds, a \in UserIds, n \in -cap..cap :
    size - n <= cap /\ updateUserBalance(p, g, u, n, a)

CallContribute(p, cap) ==
  LET size == Size IN
  \E u \in UserIds, g \in GroupIds, n \in -1..cap :
    size + n <= cap /\ createKittyTransaction(p, g, u, n, "absent")

CallRequest(p, cap) ==
  LET size == Size IN
  \E u \in UserIds, g \in GroupIds :
    size + 1 <= cap /\ createJoinRequest(p, g, u)

CallApprove(p, cap) ==
  \E g \in GroupIds, r \in 1..(cap + 1), a \in UserIds :
    approveJoinRequest(p, g, r, a, "absent")

Reasons == {"absent", "", "no"}

CallDeny(p, cap) ==
  \E g \in GroupIds, r \in 1..(cap + 1), a \in UserIds, reason \in Reasons :
    denyJoinRequestRoute(p, g, r, a, reason)

BucketCall(p, cap) ==
  \/ CallCreateGroup(p)
  \/ CallJoin(p)
  \/ CallPurchase(p, cap)
  \/ CallConsume(p, cap)

LedgerCall(p, cap) ==
  \/ CallAdjust(p, cap)
  \/ CallContribute(p, cap)
  \/ CallRequest(p, cap)
  \/ CallApprove(p, cap)
  \/ CallDeny(p, cap)

AllFresh == \A q \in Procs : Fresh(q)

\* Only calls of the operations ops are in flight or waiting to be returned.
Only(ops) == \A q \in Procs : proc[q].op \in ops \cup {"none"}

\* Calls that do not overlap: each call runs to completion before the next
\* starts.
Next ==
  \/ AllFresh /\ BucketCall(1, MaxSize)
  \/ AllFresh /\ LedgerCall(1, MaxSize)
  \/ BucketStep(1)
  \/ LedgerStep(1)
  \/ WritesLand(1)
  \/ Return

Spec == Init /\ [][Next]_vars

\* Purchases and consumptions that do not overlap.
BucketNext ==
  \/ AllFresh /\ BucketCall(1, MaxUnits)
  \/ BucketStep(1)
  \/ WritesLand(1)
  \/ Return

BucketSpec == Init /\ [][BucketNext]_vars

\* Joins and approvals that overlap, on a group created and with join
\* requests made by calls that do not overlap.
JoinRaceNext ==
  \/ AllFresh /\ (CallCreateGroup(1) \/ CallRequest(1, MaxSize))
  \/ RequestStep(1)
  \/ \E p \in Procs :
       \/ Only({"join", "approve"}) /\ (CallJoin(p) \/ CallApprove(p, MaxSize))
       \/ JoinStep(p)
       \/ AdminStep(p)
       \/ ApproveStep(p)
       \/ WriteLands(p)
  \/ Return

JoinRaceSpec == Init /\ [][JoinRaceNext]_vars

\* Consumptions that overlap, after purchases that do not.
ConsumeRaceNext ==
  \/ AllFresh /\ (CallCreateGroup(1) \/ CallJoin(1) \/ CallPurchase(1, MaxRace))
  \/ JoinStep(1)
  \/ purchaseBuckets_read(1)
  \/ \E p \in Procs :
       \/ Only({"consume"}) /\ CallConsume(p, MaxRace)
       \/ ConsumeStep(p)
       \/ WriteLands(p)
  \/ Return

ConsumeRaceSpec == Init /\ [][ConsumeRaceNext]_vars

\* Contributions that overlap.
ContributeRaceNext ==
  \/ AllFresh /\ (CallCreateGroup(1) \/ CallJoin(1))
  \/ JoinStep(1)
  \/ \E p \in Procs :
       \/ Only({"contribute"}) /\ CallContribute(p, MaxRace)
       \/ KittyStep(p)
       \/ WriteLands(p)
  \/ Return

ContributeRaceSpec == Init /\ [][ContributeRaceNext]_vars

\* One purchase and one consumption that overlap.
PurchaseConsumeRaceNext ==
  \/ AllFresh /\ (CallCreateGroup(1) \/ CallJoin(1))
  \/ JoinStep(1)
  \/ Only({"purchase", "consume"}) /\ CallPurchase(1, MaxRace)
  \/ Only({"purchase", "consume"}) /\ CallConsume(2, MaxRace)
  \/ purchaseBuckets_read(1)
  \/ ConsumeStep(2)
  \/ \E p \in Procs : WriteLands(p)
  \/ Return

PurchaseConsumeRaceSpec == Init /\ [][PurchaseConsumeRaceNext]_vars

\* Users and groups are created and users join, one call at a time.
JoinNext ==
  \/ AllFresh /\ (\E u \in UserIds : createUser(1, u))
  \/ AllFresh /\ CallCreateGroup(1)
  \/ AllFresh /\ CallJoin(1)
  \/ JoinStep(1)
  \/ WritesLand(1)
  \/ Return

JoinSpec == Init /\ [][JoinNext]_vars

\* Balance adjustments that overlap on one membership (calls on different
\* memberships write different documents).  No units, kitty or join requests
\* exist here, so the size of the database is the debt.  The two callers are
\* interchangeable: the second starts a call only while the first has one.
RaceAdjust(p, targets) ==
  LET debt == Debt IN
  \E u \in targets, g \in GroupIds, a \in UserIds, n \in -MaxDebt..MaxDebt :
    debt - n <= MaxDebt /\ updateUserBalance(p, g, u, n, a)

AdjustRaceNext ==
  \/ AllFresh /\ (CallCreateGroup(1) \/ CallJoin(1))
  \/ JoinStep(1)
  \/ Only({"adjust"}) /\ RaceAdjust(1, UserIds)
  \/ Only({"adjust"}) /\ ~Fresh(1) /\ RaceAdjust(2, {proc[1].u})
  \/ \E p \in Procs :
       \/ AdminStep(p)
       \/ updateUserBalance_read(p)
       \/ WriteLands(p)
  \/ Return

AdjustRaceSpec == Init /\ [][AdjustRaceNext]_vars

\* Join requests that overlap, on a group that users have joined one call at
\* a time.
RequestRaceNext ==
  \/ AllFresh /\ (CallCreateGroup(1) \/ CallJoin(1))
  \/ JoinStep(1)
  \/ \E p \in Procs :
       \/ Only({"request"}) /\ CallRequest(p, MaxRace)
       \/ RequestStep(p)
       \/ WriteLands(p)
  \/ Return

RequestRaceSpec == Init /\ [][RequestRaceNext]_vars

\* Approvals and denials that overlap, on a group that users have joined and
\* asked to join one call at a time.
ProcessRaceNext ==
  \/ AllFresh /\ (CallCreateGroup(1) \/ CallJoin(1) \/ CallRequest(1, MaxRace))
  \/ RequestStep(1)
  \/ \E p \in Procs :
       \/ Only({"approve", "deny"})
            /\ (CallApprove(p, MaxRace) \/ CallDeny(p, MaxRace))
       \/ AdminStep(p)
       \/ ApproveStep(p)
       \/ denyJoinRequest_update(p)
       \/ JoinStep(p)
       \/ WriteLands(p)
  \/ Return

ProcessRaceSpec == Init /\ [][ProcessRaceNext]_vars

\* Joins that overlap, and between them calls of validateSingleAdmin.
ValidatorNext ==
  \/ AllFresh /\ CallCreateGroup(1)
  \/ AllFresh /\ CallValidateSingleAdmin(1)
  \/ \E p \in Procs :
       \/ Only({"join"}) /\ CallJoin(p)
       \/ JoinStep(p)
       \/ WriteLands(p)
  \/ Return

ValidatorSpec == Init /\ [][ValidatorNext]_vars

\* The first caller joins users to the group; the second calls the
\* operations of a member, and validateUserGroupMembership on its own, also
\* while a join is in flight.
MemberRaceNext ==
  \/ AllFresh /\ CallCreateGroup(1)
  \/ CallJoin(1)
  \/ JoinStep(1)
  \/ CallValidateUserGroupMembership(2)
  \/ Fresh(2) /\ CallPurchase(2, MaxMember)
  \/ Fresh(2) /\ CallConsume(2, MaxMember)
  \/ Fresh(2) /\ CallAdjust(2, MaxMember)
  \/ Fresh(2) /\ CallContribute(2, MaxMember)
  \/ purchaseBuckets_read(2)
  \/ ConsumeStep(2)
  \/ AdminStep(2)
  \/ updateUserBalance_read(2)
  \/ KittyStep(2)
  \/ \E p \in Procs : WriteLands(p)
  \/ Return

MemberRaceSpec == Init /\ [][MemberRaceNext]_vars

\* The caller of a purchase keeps the bucketIds list it was returned while the
\* member consumes, one call at a time: the response of a consume is taken
\* on its own.
ReturnOf(p) ==
  /\ Quiet
  /\ proc[p].pc = "done"
  /\ proc' = [proc EXCEPT ![p] = Idle]
  /\ pre' = DB
  /\ UNCHANGED <<dbvars, now>>

BatchNext ==
  \/ AllFresh /\ (CallCreateGroup(1) \/ CallJoin(1) \/ CallPurchase(1, MaxUnits))
  \/ JoinStep(1)
  \/ purchaseBuckets_read(1)
  \/ WritesLand(1)
  \/ /\ proc[1].pc = "done" /\ proc[1].op = "purchase"
     /\ CallConsume(2, MaxUnits)
  \/ ConsumeStep(2)
  \/ WritesLand(2)
  \/ ReturnOf(2)
  \/ Return

BatchSpec == Init /\ [][BatchNext]_vars

(* ------------------------------ what the claims speak of --------------- *)
Memberships == UserIds \X GroupIds

IsMember(db, m) == db.userGroups[m].exists /\ db.groupMembers[m].exists

BucketsOf(db, m) ==
  {b \in BucketIds : /\ db.buckets[b].exists
                     /\ db.buckets[b].userId = m[1]
                     /\ db.buckets[b].groupId = m[2]}

SumRemainingUnits(db, m) ==
  SumOver([b \in BucketIds |-> db.buckets[b].remainingUnits], BucketsOf(db, m))

SumUnitsInBucket(db, m) ==
  SumOver([b \in BucketIds |-> db.buckets[b].unitsInBucket], BucketsOf(db, m))

RECURSIVE BagUnits(_, _)
BagUnits(bag, R) ==
  IF R = {} THEN 0
  ELSE LET r == CHOOSE r \in R : TRUE IN
       r.units * CopiesIn(r, bag) + BagUnits(bag, R \ {r})

ConsumedBy(db, m) ==
  BagUnits(db.consumption,
           {r \in BagToSet(db.consumption) :
              r.userId = m[1] /\ r.groupId = m[2]})

ConsumedFrom(db, b) ==
  BagUnits(db.consumption,
           {r \in BagToSet(db.consumption) : r.bucketId = b})

\* The buckets selectNextActive may return: the member's active buckets with
\* units left, other than the excluded one.
Available(db, m, excluded) ==
  {b \in BucketsOf(db, m) : /\ b # excluded
                            /\ db.buckets[b].status = "active"
                            /\ db.buckets[b].remainingUnits > 0}

\* I5 for one membership mirror.
ActiveBucketOk(db, m, id) ==
  \/ id = NullId
  \/ /\ id \in BucketsOf(db, m)
     /\ db.buckets[id].status = "active"
     /\ db.buckets[id].remainingUnits > 0

\* The call that has just returned, when calls do not overlap.
Returned(op) == proc[1].pc = "done" /\ proc[1].op = op
ReturnedOk(op) == Returned(op) /\ proc[1].result = "ok"
Caller == <<proc[1].u, proc[1].g>>

(* ------------------------------ C4 ------------------------------------ *)
\* C4: for any sequence of purchase and consume calls that do not overlap,
\* at every point the units left in a member's buckets plus the units of the
\* member's Consumption records equal the units the buckets were bought with.
C4_UnitsConserved ==
  \A m \in Memberships :
    SumRemainingUnits(DB, m) + ConsumedBy(DB, m) = SumUnitsInBucket(DB, m)

\* A member has drained one bucket and part of the next.
C4_Witness ==
  \E m \in Memberships :
    /\ Cardinality(BagToSet(consumption)) >= 1
    /\ ConsumedBy(DB, m) >= 2
    /\ SumRemainingUnits(DB, m) >= 1
    /\ \E b \in BucketsOf(DB, m) : buckets[b].status = "completed"

(* ------------------------------ C5 ------------------------------------ *)
\* What the consume that has just returned found and left in its bucket.
ConsumedBucket == proc[1].act
LeftInBucket == pre.buckets[ConsumedBucket].remainingUnits - proc[1].x

BothMirrorsActive(m, id) ==
  /\ userGroups[m].activeBucketId = id
  /\ groupMembers[m].activeBucketId = id

\* C5: a successful consume that brings the active bucket to 0 units marks it
\* completed and makes active, in both mirrors, a bucket of the smallest
\* purchasedAt among the member's other active buckets with units left, or
\* null when there is none; a consume that leaves units in the bucket leaves
\* activeBucketId as it was.
C5_FifoRotation ==
  ReturnedOk("consume") =>
    LET m == Caller
        rest == Available(DB, m, ConsumedBucket)
    IN
    /\ ConsumedBucket = pre.userGroups[m].activeBucketId
    /\ IF LeftInBucket = 0
         THEN /\ buckets[ConsumedBucket].status = "completed"
              /\ buckets[ConsumedBucket].remainingUnits = 0
              /\ IF rest = {}
                   THEN BothMirrorsActive(m, NullId)
                   ELSE \E next \in rest :
                          /\ BothMirrorsActive(m, next)
                          /\ \A b \in rest : buckets[next].purchasedAt
                                               <= buckets[b].purchasedAt
         ELSE /\ buckets[ConsumedBucket].status = "active"
              /\ BothMirrorsActive(m, pre.userGroups[m].activeBucketId)
              /\ BothMirrorsActive(m, pre.groupMembers[m].activeBucketId)

\* A bucket has been emptied while two later buckets of different age were
\* waiting.
C5_Witness ==
  /\ ReturnedOk("consume")
  /\ LeftInBucket = 0
  /\ \E a, b \in Available(DB, Caller, ConsumedBucket) :
       buckets[a].purchasedAt < buckets[b].purchasedAt

(* ------------------------------ C6 ------------------------------------ *)
\* The consume that has just returned asked for more than its member's
\* active bucket held.
AskedTooMuch ==
  /\ Returned("consume")
  /\ IsMember(pre, Caller)
  /\ pre.userGroups[Caller].activeBucketId # NullId
  /\ pre.buckets[pre.userGroups[Caller].activeBucketId].exists
  /\ proc[1].x > pre.buckets[pre.userGroups[Caller].activeBucketId].remainingUnits

\* C6: a consume of more units than the active bucket holds fails
\* InsufficientUnits, whatever the member's other buckets hold, and writes
\* nothing.
C6_InsufficientUnits ==
  AskedTooMuch => proc[1].result = "InsufficientUnits" /\ DB = pre

\* The member's other buckets held enough for the request.
C6_Witness ==
  /\ AskedTooMuch
  /\ SumRemainingUnits(pre, Caller) >= proc[1].x
  /\ proc[1].result = "InsufficientUnits"

(* ------------------------------ C7 ------------------------------------ *)
HasUnitsLeft(db, m) == Available(db, m, NullId) # {}

\* C7: the consume that empties a member's last bucket with units leaves
\* activeBucketId null in both mirrors; a consume while it is null fails
\* NoActiveBucket and writes nothing; activeBucketId leaves null only by a
\* purchase of that member, and after that purchase a consume succeeds.
C7_NoActiveBucketUntilPurchase ==
  /\ (ReturnedOk("consume") /\ LeftInBucket = 0 /\ ~HasUnitsLeft(DB, Caller))
       => BothMirrorsActive(Caller, NullId)
  /\ (/\ Returned("consume")
      /\ IsMember(pre, Caller)
      /\ pre.userGroups[Caller].activeBucketId = NullId)
       => proc[1].result = "NoActiveBucket" /\ DB = pre
  /\ \A m \in Memberships :
       (/\ IsMember(pre, m)
        /\ pre.userGroups[m].activeBucketId = NullId
        /\ ~BothMirrorsActive(m, NullId))
         => proc[1].op = "purchase" /\ Caller = m
  /\ (/\ ReturnedOk("purchase")
      /\ pre.userGroups[Caller].activeBucketId = NullId)
       => /\ userGroups[Caller].activeBucketId # NullId
          /\ ActiveBucketOk(DB, Caller, userGroups[Caller].activeBucketId)
          /\ BothMirrorsActive(Caller, userGroups[Caller].activeBucketId)
  /\ (/\ Returned("consume")
      /\ IsMember(pre, Caller)
      /\ ActiveBucketOk(pre, Caller, pre.userGroups[Caller].activeBucketId)
      /\ pre.userGroups[Caller].activeBucketId # NullId
      /\ proc[1].x <= pre.buckets[pre.userGroups[Caller].activeBucketId].remainingUnits)
       => proc[1].result = "ok"

\* A member whose buckets were all emptied has purchased again.
C7_Witness ==
  /\ ReturnedOk("purchase")
  /\ pre.userGroups[Caller].activeBucketId = NullId
  /\ \E b \in BucketsOf(pre, Caller) : pre.buckets[b].status = "completed"
  /\ userGroups[Caller].activeBucketId # NullId

(* ------------------------------ C10 ----------------------------------- *)
NewBuckets == {proc[1].ids[i] : i \in 1..Len(proc[1].ids)}

\* C10: a successful purchase adds exactly bucketCount buckets of the member,
\* each with unitsInBucket = remainingUnits = unitsPerBucket and status
\* active, changes no other bucket, makes the first returned id active in
\* both mirrors when activeBucketId was null and leaves it otherwise.
C10_Purchase ==
  ReturnedOk("purchase") =>
    /\ Len(proc[1].ids) = proc[1].x
    /\ Cardinality(NewBuckets) = proc[1].x
    /\ \A b \in NewBuckets :
         /\ ~pre.buckets[b].exists
         /\ buckets[b] = [exists |-> TRUE, groupId |-> proc[1].g,
                          userId |-> proc[1].u, unitsInBucket |-> proc[1].y,
                          remainingUnits |-> proc[1].y, status |-> "active",
                          purchasedAt |-> buckets[b].purchasedAt]
    /\ \A b \in BucketIds \ NewBuckets : buckets[b] = pre.buckets[b]
    /\ IF pre.userGroups[Caller].activeBucketId = NullId
         THEN BothMirrorsActive(Caller, proc[1].ids[1])
         ELSE /\ BothMirrorsActive(Caller, pre.userGroups[Caller].activeBucketId)
              /\ BothMirrorsActive(Caller, pre.groupMembers[Caller].activeBucketId)

\* Two buckets bought at once by a member who had none.
C10_Witness ==
  /\ ReturnedOk("purchase")
  /\ proc[1].x >= 2
  /\ pre.userGroups[Caller].activeBucketId = NullId
  /\ BothMirrorsActive(Caller, proc[1].ids[1])

(* ------------------------------ C8 ------------------------------------ *)
\* I5 for both mirrors of every membership.
ActiveBucketsOkIn(db) ==
  \A m \in Memberships :
    /\ ActiveBucketOk(db, m, db.userGroups[m].activeBucketId)
    /\ ActiveBucketOk(db, m, db.groupMembers[m].activeBucketId)

ActiveBucketsOk == ActiveBucketsOkIn(DB)

\* C8: after every successful call, in any sequence of calls that do not
\* overlap, each membership's activeBucketId is null or the id of a bucket
\* of that member in that group with status active and units left.
C8_ActiveBucketValid ==
  (proc[1].pc = "done" /\ proc[1].result = "ok") => ActiveBucketsOk

\* An approval has succeeded while a member had an active bucket.
C8_Witness ==
  /\ ReturnedOk("approve")
  /\ \E m \in Memberships : userGroups[m].activeBucketId # NullId

(* ------------------------------ C1 ------------------------------------ *)
\* C1: under any interleaving of join and approve calls on a group, a group
\* with at least one member has exactly one membership with isAdmin = true.
C1_ExactlyOneAdmin ==
  \A g \in GroupIds :
    Members(g) # {} => Cardinality(AdminMembers(g)) = 1

(* ------------------------------ C2 ------------------------------------ *)
\* The calls of operation op that overlapped have all completed successfully,
\* and were made by one member.
AllReturnedOk(op) ==
  /\ Quiet
  /\ \A q \in Procs : /\ proc[q].op = op
                      /\ proc[q].result = "ok"
                      /\ proc[q].u = proc[1].u
                      /\ proc[q].g = proc[1].g

\* I6 for every bucket.
ConsumedMatchesBuckets(db) ==
  \A b \in BucketIds :
    db.buckets[b].exists =>
      ConsumedFrom(db, b) = db.buckets[b].unitsInBucket - db.buckets[b].remainingUnits

\* C2: once the consume calls of one member that overlapped on the active
\* bucket have all completed, the units of the Consumption records written
\* for each bucket equal unitsInBucket - remainingUnits, as before the calls.
C2_ConsumedMatchesBucket ==
  (AllReturnedOk("consume") /\ ConsumedMatchesBuckets(pre))
    => ConsumedMatchesBuckets(DB)

(* ------------------------------ C3 ------------------------------------ *)
Contributed(g) ==
  SumOver([q \in Procs |-> IF proc[q].g = g THEN proc[q].x ELSE 0], Procs)

\* C3: once contribute calls on a group that overlapped have all succeeded,
\* the kitty balance is its value before them plus the sum of their amounts.
C3_NoContributionLost ==
  AllReturnedOk("contribute") =>
    \A g \in GroupIds :
      groups[g].kittyBalance = pre.groups[g].kittyBalance + Contributed(g)

(* ------------------------------ C9 ------------------------------------ *)
\* C9: once a purchase and a consume of one member with an active bucket
\* that overlapped have both completed, activeBucketId is null or references
\* an active bucket of the member with units left, as before the calls.
C9_ActiveBucketValidAfterOverlap ==
  (/\ Quiet
   /\ proc[1].op = "purchase" /\ proc[1].result = "ok"
   /\ proc[2].op = "consume" /\ proc[2].result = "ok"
   /\ proc[1].u = proc[2].u /\ proc[1].g = proc[2].g
   /\ pre.userGroups[Caller].activeBucketId # NullId
   /\ ActiveBucketsOkIn(pre))
    => ActiveBucketsOk

(* ------------------------------ C11 ----------------------------------- *)
\* C11: in every reachable state, also while adjustBalance calls on one
\* membership overlap and whether they succeed or fail, the balance in each
\* membership mirror is less than or equal to 0.
C11_BalanceNeverPositive ==
  \A m \in Memberships :
    userGroups[m].balance <= 0 /\ groupMembers[m].balance <= 0

\* Two adjustBalance calls on one membership have overlapped, one accepted
\* and one rejected, and the member is in debt.
C11_Witness ==
  /\ Quiet
  /\ \A q \in Procs : proc[q].op = "adjust" /\ <<proc[q].u, proc[q].g>> = Caller
  /\ proc[1].result = "ok"
  /\ proc[2].result = "PositiveBalanceRejected"
  /\ userGroups[Caller].balance < 0

(* ------------------------------ C12 ----------------------------------- *)
\* The adjustBalance call that has returned was made by the group's admin on
\* a member.
AdjustedByAdmin ==
  /\ Returned("adjust")
  /\ IsMember(pre, Caller)
  /\ IsMember(pre, <<proc[1].a, proc[1].g>>)
  /\ pre.groupMembers[<<proc[1].a, proc[1].g>>].isAdmin

BalanceIs(m, balance) ==
  userGroups[m].balance = balance /\ groupMembers[m].balance = balance

\* C12: an adjustBalance by the admin with currentBalance + amount > 0 is
\* rejected PositiveBalanceRejected, reports -currentBalance as the maximum
\* allowed and leaves both mirrors as they were; with currentBalance +
\* amount <= 0 and amount # 0 it is accepted and both mirrors hold
\* currentBalance + amount (0 when amount = -currentBalance).
C12_AdjustBalance ==
  AdjustedByAdmin =>
    LET currentBalance == pre.userGroups[Caller].balance
        amount == proc[1].x
    IN /\ currentBalance + amount > 0 =>
            /\ proc[1].result = "PositiveBalanceRejected"
            /\ proc[1].report = -currentBalance
            /\ userGroups[Caller].balance = currentBalance
            /\ groupMembers[Caller].balance = pre.groupMembers[Caller].balance
       /\ (currentBalance + amount <= 0 /\ amount # 0) =>
            /\ proc[1].result = "ok"
            /\ BalanceIs(Caller, currentBalance + amount)
       /\ (amount = -currentBalance /\ currentBalance < 0) =>
            /\ proc[1].result = "ok"
            /\ BalanceIs(Caller, 0)

\* The admin has tried to pay more than a member's debt.
C12_Witness ==
  /\ AdjustedByAdmin
  /\ pre.userGroups[Caller].balance < 0
  /\ proc[1].result = "PositiveBalanceRejected"

(* ------------------------------ C13 ----------------------------------- *)
AdminOps == {"adjust", "approve", "deny"}

\* The membership of the adminUserId the call was made with.
AdminArg == <<proc[1].a, proc[1].g>>

\* A deny was made with a reason.
HasReason == proc[1].op = "deny" => proc[1].reason \notin {"absent", ""}

\* What the call checks before it looks at adminUserId holds: the target is a
\* member (adjustBalance), the join request exists and is pending (approve,
\* deny), a deny has a reason.
ReachesAdminCheck ==
  IF proc[1].op = "adjust"
    THEN IsMember(pre, <<proc[1].u, proc[1].g>>)
    ELSE /\ HasReason
         /\ pre.groups[proc[1].g].exists
         /\ pre.joinRequests[proc[1].rid].exists
         /\ pre.joinRequests[proc[1].rid].groupId = proc[1].g
         /\ pre.joinRequests[proc[1].rid].status = "pending"

\* C13: adjustBalance, approve and deny change state only when adminUserId is
\* a member whose group-side membership has isAdmin = true: with a non-admin
\* member the call fails NotAdmin, with a non-member it fails as not a
\* member, and the balance and the join request are as they were.
C13_OnlyAdminChangesState ==
  (proc[1].pc = "done" /\ proc[1].op \in AdminOps) =>
    /\ DB # pre => (IsMember(pre, AdminArg) /\ pre.groupMembers[AdminArg].isAdmin)
    /\ (ReachesAdminCheck /\ ~IsMember(pre, AdminArg)) =>
         proc[1].result = "NotMember"
    /\ (ReachesAdminCheck /\ IsMember(pre, AdminArg)
          /\ ~pre.groupMembers[AdminArg].isAdmin) =>
         proc[1].result = "NotAdmin"

\* A member who is not the admin has tried to approve a pending join request.
C13_Witness ==
  /\ Returned("approve")
  /\ ReachesAdminCheck
  /\ IsMember(pre, AdminArg)
  /\ proc[1].result = "NotAdmin"
  /\ joinRequests[proc[1].rid].status = "pending"

(* ------------------------------ C14 ----------------------------------- *)
Balances(db) ==
  [m \in Memberships |-> <<db.userGroups[m].balance, db.groupMembers[m].balance>>]

MirrorsEqual ==
  \A m \in Memberships :
    /\ userGroups[m].exists = groupMembers[m].exists
    /\ userGroups[m].balance = groupMembers[m].balance
    /\ userGroups[m].isAdmin = groupMembers[m].isAdmin
    /\ userGroups[m].activeBucketId = groupMembers[m].activeBucketId

\* C15: after every successful join, purchase, consume and adjustBalance, in
\* any sequence of calls that do not overlap, the user-side and the
\* group-side mirror of each membership both exist and hold the same
\* balance, isAdmin and activeBucketId.
C15_MirrorsEqual ==
  (proc[1].pc = "done" /\ proc[1].result = "ok"
     /\ proc[1].op \in {"join", "purchase", "consume", "adjust"})
    => MirrorsEqual

\* A balance adjustment has succeeded for a member who has an active bucket.
C15_Witness ==
  /\ ReturnedOk("adjust")
  /\ userGroups[Caller].exists
  /\ userGroups[Caller].balance < 0
  /\ userGroups[Caller].activeBucketId # NullId

(* ------------------------------ C16 ----------------------------------- *)
MirrorsAgree(db, m) ==
  /\ db.userGroups[m].balance = db.groupMembers[m].balance
  /\ db.userGroups[m].activeBucketId = db.groupMembers[m].activeBucketId

\* C16: once two adjustBalance calls with different amounts that overlapped
\* on a membership have both completed, the two mirrors of the membership
\* hold the same balance and the same activeBucketId, as before the calls.
C16_MirrorsEqualAfterOverlap ==
  (/\ Quiet
   /\ \A q \in Procs : /\ proc[q].op = "adjust"
                       /\ proc[q].result = "ok"
                       /\ <<proc[q].u, proc[q].g>> = Caller
   /\ proc[1].x # proc[2].x
   /\ MirrorsAgree(pre, Caller))
    => MirrorsAgree(DB, Caller)

(* ------------------------------ C17 ----------------------------------- *)
\* C17: after any sequence of join, request, approve and deny calls that do
\* not overlap, a group with at least one member has exactly one membership
\* with isAdmin = true.
C17_OneAdminSequential ==
  Quiet =>
    \A g \in GroupIds :
      Members(g) # {} =>
        Cardinality({u \in Members(g) : groupMembers[<<u, g>>].isAdmin}) = 1

\* An approval has added a second member to a group.
C17_Witness ==
  /\ ReturnedOk("approve")
  /\ Cardinality(Members(proc[1].g)) = 2

(* ------------------------------ C18 ----------------------------------- *)
MembersIn(db, g) == {u \in UserIds : db.groupMembers[<<u, g>>].exists}

JoinedAs(m, isAdmin) ==
  /\ userGroups[m].exists /\ userGroups[m].isAdmin = isAdmin
  /\ groupMembers[m].exists /\ groupMembers[m].isAdmin = isAdmin

\* C18: a successful join into a group with no members creates the
\* membership with isAdmin = true in both mirrors whatever requestedAdmin is;
\* a successful join into a group that has a member, with requestedAdmin
\* false or absent, creates it with isAdmin = false.
C18_FirstMemberIsAdmin ==
  ReturnedOk("join") =>
    /\ MembersIn(pre, proc[1].g) = {} => JoinedAs(Caller, TRUE)
    /\ (MembersIn(pre, proc[1].g) # {} /\ proc[1].flag \in {"false", "absent"})
         => JoinedAs(Caller, FALSE)

\* A join that asked not to be admin has succeeded on a group with no members.
C18_Witness ==
  /\ ReturnedOk("join")
  /\ proc[1].flag = "false"
  /\ MembersIn(pre, proc[1].g) = {}
  /\ JoinedAs(Caller, TRUE)

(* ------------------------------ C19 ----------------------------------- *)
\* A join asking to be admin has returned, on a group that had a member.
JoinedAsSecondAdmin ==
  /\ Returned("join")
  /\ proc[1].flag = "true"
  /\ MembersIn(pre, proc[1].g) # {}

\* C19: a join with requestedAdmin = true into a group that has a member
\* fails, with AdminConflict when the user is not yet a member, and creates
\* neither membership mirror.
C19_AdminConflict ==
  JoinedAsSecondAdmin =>
    /\ proc[1].result # "ok"
    /\ (~pre.userGroups[Caller].exists /\ ~pre.groupMembers[Caller].exists)
         => proc[1].result = "AdminConflict"
    /\ DB = pre

\* A second user has asked to join as admin and was refused.
C19_Witness ==
  /\ JoinedAsSecondAdmin
  /\ ~pre.userGroups[Caller].exists
  /\ proc[1].result = "AdminConflict"
  /\ ~userGroups[Caller].exists /\ ~groupMembers[Caller].exists

(* ------------------------------ C20 ----------------------------------- *)
\* C20: a join fails UserNotFound when no User record with the id exists and
\* GroupNotFound when no Group record with the id exists, and writes
\* neither membership mirror.
C20_JoinNeedsUserAndGroup ==
  Returned("join") =>
    /\ (proc[1].u \notin pre.users \/ ~pre.groups[proc[1].g].exists) =>
         (proc[1].result # "ok" /\ DB = pre)
    /\ (proc[1].u \notin pre.users /\ pre.groups[proc[1].g].exists) =>
         proc[1].result = "UserNotFound"
    /\ (proc[1].u \in pre.users /\ ~pre.groups[proc[1].g].exists) =>
         proc[1].result = "GroupNotFound"

(* ------------------------------ C21 ----------------------------------- *)
\* The join that has returned was for a pair that already had a membership.
JoinedAgain ==
  /\ Returned("join")
  /\ (pre.userGroups[Caller].exists \/ pre.groupMembers[Caller].exists)

\* C21: a join for a (userId, groupId) pair that already has a membership
\* fails MembershipExists and leaves the balance, isAdmin, activeBucketId and
\* joinedAt of the membership as they were in both mirrors.
C21_MembershipExists ==
  JoinedAgain =>
    /\ proc[1].result = "MembershipExists"
    /\ userGroups[Caller] = pre.userGroups[Caller]
    /\ groupMembers[Caller] = pre.groupMembers[Caller]

\* A member in debt, not the admin, has tried to join again.
C21_Witness ==
  /\ JoinedAgain
  /\ pre.userGroups[Caller].balance < 0
  /\ ~pre.userGroups[Caller].isAdmin
  /\ proc[1].result = "MembershipExists"
  /\ userGroups[Caller].joinedAt = pre.userGroups[Caller].joinedAt

(* ------------------------------ C22 ----------------------------------- *)
PendingIn(db, g, u) ==
  {r \in RequestIds : /\ db.joinRequests[r].exists
                      /\ db.joinRequests[r].groupId = g
                      /\ db.joinRequests[r].userId = u
                      /\ db.joinRequests[r].status = "pending"}

\* The request that has returned was made on a group that exists.
Requested == Returned("request") /\ pre.groups[proc[1].g].exists

\* C22: a request by a user who has a membership in the group fails
\* AlreadyMember, a request by a user who is not a member while a pending
\* JoinRequest of the same user and group exists fails DuplicateRequest, and
\* neither creates a record.
C22_DuplicateRequest ==
  Requested =>
    /\ IsMember(pre, Caller) =>
         (proc[1].result = "AlreadyMember" /\ DB = pre)
    /\ (~IsMember(pre, Caller) /\ PendingIn(pre, proc[1].g, proc[1].u) # {}) =>
         (proc[1].result = "DuplicateRequest" /\ DB = pre)

\* A user whose request was approved has made a further request.
C22_Witness ==
  /\ Requested
  /\ \E r \in RequestIds : /\ pre.joinRequests[r].userId = proc[1].u
                            /\ pre.joinRequests[r].status = "approved"
  /\ proc[1].result = "AlreadyMember"
  /\ joinRequests = pre.joinRequests

(* ------------------------------ C23 ----------------------------------- *)
\* C23: in every reachable state, also when two request calls of one user on
\* one group overlap, at most one JoinRequest of the user and the group has
\* status pending.
C23_AtMostOnePending ==
  \A g \in GroupIds, u \in UserIds : Cardinality(PendingRequests(g, u)) <= 1

(* ------------------------------ C24 ----------------------------------- *)
\* The approve or deny that has returned was made on a group that exists,
\* the deny with a reason.
Processed ==
  /\ proc[1].pc = "done"
  /\ proc[1].op \in {"approve", "deny"}
  /\ HasReason
  /\ pre.groups[proc[1].g].exists

\* The join request the call named, as it was before the call.
RequestBefore == pre.joinRequests[proc[1].rid]

\* C24: an approve or deny of a JoinRequest that is already approved or
\* denied fails NotPending, and one of a requestId no JoinRequest has fails
\* RequestNotFound; in both cases the join requests and the memberships are
\* as they were.
C24_TerminalStatus ==
  Processed =>
    /\ (RequestBefore.exists /\ RequestBefore.status \in {"approved", "denied"})
         => proc[1].result = "NotPending"
    /\ ~RequestBefore.exists => proc[1].result = "RequestNotFound"
    /\ (~RequestBefore.exists \/ RequestBefore.status # "pending")
         => /\ joinRequests = pre.joinRequests
            /\ userGroups = pre.userGroups
            /\ groupMembers = pre.groupMembers

\* The admin has tried to approve a request that was denied.
C24_Witness ==
  /\ Processed
  /\ proc[1].op = "approve"
  /\ RequestBefore.status = "denied"
  /\ pre.groupMembers[<<proc[1].a, proc[1].g>>].isAdmin
  /\ proc[1].result = "NotPending"
  /\ joinRequests[proc[1].rid].status = "denied"

(* ------------------------------ C25 ----------------------------------- *)
\* An approval of request r has added the request's user to the group.
AddedByApproval(r) ==
  \E q \in Procs : /\ proc[q].op = "approve"
                    /\ proc[q].rid = r
                    /\ proc[q].pc = "done"
                    /\ proc[q].result = "ok"

StatusIsFinal ==
  \A r \in RequestIds :
    joinRequests[r].status \in {"approved", "denied"}
      => joinRequests'[r].status = joinRequests[r].status

\* C25: in every behaviour, also when an approve and a deny, or two
\* approves, of one pending request overlap, the status of a JoinRequest
\* changes at most once, from pending to approved or to denied, and no
\* request is denied while its approval has added its user to the group.
C25_StatusChangesOnce ==
  /\ [][StatusIsFinal]_vars
  /\ [](\A r \in RequestIds :
          ~(joinRequests[r].status = "denied" /\ AddedByApproval(r)))

(* ------------------------------ C26 ----------------------------------- *)
NewMember(doc) ==
  /\ doc.exists
  /\ doc.isAdmin = FALSE
  /\ doc.balance = 0
  /\ doc.activeBucketId = NullId

\* C26: after a successful approve of a pending request by the group's
\* admin, the request is approved with adminUserId and processedAt set, and
\* the requesting user has a membership with isAdmin = false, balance = 0 and
\* activeBucketId = null in both mirrors.
C26_Approve ==
  ReturnedOk("approve") =>
    LET request == joinRequests[proc[1].rid]
        m == <<RequestBefore.userId, proc[1].g>>
    IN
    /\ RequestBefore.exists /\ RequestBefore.status = "pending"
    /\ pre.groupMembers[<<proc[1].a, proc[1].g>>].isAdmin
    /\ request.status = "approved"
    /\ request.adminUserId = proc[1].a
    /\ request.processedAt > pre.joinRequests[proc[1].rid].processedAt
    /\ request.userId = RequestBefore.userId
    /\ ~pre.userGroups[m].exists /\ ~pre.groupMembers[m].exists
    /\ NewMember(userGroups[m])
    /\ NewMember(groupMembers[m])

\* The admin, who has an active bucket, has approved a request.
C26_Witness ==
  /\ ReturnedOk("approve")
  /\ joinRequests[proc[1].rid].status = "approved"
  /\ userGroups[<<proc[1].a, proc[1].g>>].activeBucketId # NullId
  /\ NewMember(groupMembers[<<RequestBefore.userId, proc[1].g>>])

(* ------------------------------ C27 ----------------------------------- *)
\* C27: an approve of a pending request that fails, for any reason, also
\* because its join fails MembershipExists for a user who joined the group
\* after making the request, leaves the JoinRequest pending and without
\* adminUserId, processedAt and reason.
C27_FailedApproveLeavesPending ==
  (/\ Returned("approve")
   /\ proc[1].result # "ok"
   /\ RequestBefore.exists
   /\ RequestBefore.status = "pending")
    => /\ joinRequests[proc[1].rid].status = "pending"
       /\ joinRequests[proc[1].rid].adminUserId = ""
       /\ joinRequests[proc[1].rid].processedAt = 0
       /\ joinRequests[proc[1].rid].reason = ""

(* ------------------------------ C28 ----------------------------------- *)
\* The deny that has returned was made by the group's admin on a pending
\* request.
DeniedByAdmin ==
  /\ Returned("deny")
  /\ pre.groups[proc[1].g].exists
  /\ RequestBefore.exists /\ RequestBefore.status = "pending"
  /\ IsMember(pre, <<proc[1].a, proc[1].g>>)
  /\ pre.groupMembers[<<proc[1].a, proc[1].g>>].isAdmin

\* C28: a deny with a missing or empty reason fails MissingReason and leaves
\* the request as it was; a deny with a reason, of a pending request by the
\* group's admin, sets status denied with that reason, adminUserId and
\* processedAt, and creates no membership.
C28_Deny ==
  /\ (Returned("deny") /\ proc[1].reason \in {"absent", ""}) =>
       (proc[1].result = "MissingReason" /\ DB = pre)
  /\ (DeniedByAdmin /\ HasReason) =>
       /\ proc[1].result = "ok"
       /\ joinRequests[proc[1].rid].status = "denied"
       /\ joinRequests[proc[1].rid].reason = proc[1].reason
       /\ joinRequests[proc[1].rid].adminUserId = proc[1].a
       /\ joinRequests[proc[1].rid].processedAt > 0
       /\ userGroups = pre.userGroups
       /\ groupMembers = pre.groupMembers

\* The admin has tried to deny a pending request with an empty reason.
C28_Witness ==
  /\ DeniedByAdmin
  /\ proc[1].reason = ""
  /\ proc[1].result = "MissingReason"
  /\ joinRequests[proc[1].rid].status = "pending"

(* ------------------------------ C29 ----------------------------------- *)
\* The KittyTransaction record of the contribute that has returned.
Contribution ==
  [groupId |-> proc[1].g, userId |-> proc[1].u, amount |-> proc[1].x,
   comment |-> proc[1].reason]

\* C29: contribute is not idempotent: a successful contribute adds one
\* KittyTransaction record and its amount to the kitty balance also when
\* records of the same group, user, amount and comment exist; after the n-th
\* such call there are n such records, and the kitty balance was raised n
\* times by the amount.
C29_ContributeNotIdempotent ==
  ReturnedOk("contribute") =>
    LET n == CopiesIn(Contribution, pre.transactions) IN
    /\ transactions = pre.transactions (+) SetToBag({Contribution})
    /\ CopiesIn(Contribution, transactions) = n + 1
    /\ groups[proc[1].g].kittyBalance
         = pre.groups[proc[1].g].kittyBalance + proc[1].x
    /\ groups[proc[1].g].kittyBalance >= (n + 1) * proc[1].x

\* The same contribution has been made twice.
C29_Witness ==
  /\ ReturnedOk("contribute")
  /\ CopiesIn(Contribution, pre.transactions) = 1
  /\ CopiesIn(Contribution, transactions) = 2
  /\ groups[proc[1].g].kittyBalance = 2 * proc[1].x

(* ------------------------------ C30 ----------------------------------- *)
\* C30: in every reachable state the kitty balance of a group is greater
\* than or equal to 0: a group is created with kitty balance 0, a contribute
\* with amount <= 0 fails, with NonPositiveAmount when made by a member,
\* without changing anything, and no operation makes the kitty balance less
\* than it was before the call.
C30_KittyNonNegative ==
  /\ \A g \in GroupIds :
       /\ groups[g].kittyBalance >= 0
       /\ groups[g].kittyBalance >= pre.groups[g].kittyBalance
  /\ ReturnedOk("createGroup") =>
       (~pre.groups[proc[1].g].exists /\ groups[proc[1].g].kittyBalance = 0)
  /\ (Returned("contribute") /\ proc[1].x <= 0) =>
       /\ proc[1].result # "ok"
       /\ IsMember(pre, Caller) => proc[1].result = "NonPositiveAmount"
       /\ DB = pre

\* A member has tried to contribute a negative amount to a kitty that holds
\* money.
C30_Witness ==
  /\ Returned("contribute")
  /\ proc[1].x < 0
  /\ IsMember(pre, Caller)
  /\ proc[1].result = "NonPositiveAmount"
  /\ groups[proc[1].g].kittyBalance > 0

(* ------------------------------ C31 ----------------------------------- *)
\* The members of group g whose group-side membership has isAdmin = true.
AdminsIn(db, g) ==
  {u \in UserIds : db.groupMembers[<<u, g>>].exists
                     /\ db.groupMembers[<<u, g>>].isAdmin = TRUE}

\* C31: validateSingleAdmin(groupId, isAdmin) fails with 'Group already has
\* an admin' exactly when isAdmin is true and the group has a member with
\* isAdmin = true, fails with 'Group must have an admin' exactly when
\* isAdmin is false and the group has no such member, succeeds in every
\* other case, also for isAdmin false with two admins, and never writes.
C31_ValidateSingleAdmin ==
  Returned("validateSingleAdmin") =>
    LET admins == AdminsIn(pre, proc[1].g)
        isAdmin == proc[1].adm
    IN
    /\ proc[1].result = "AdminConflict" <=> (isAdmin /\ admins # {})
    /\ proc[1].result = "MustHaveAdmin" <=> (~isAdmin /\ admins = {})
    /\ proc[1].result = "ok" <=> ~(\/ isAdmin /\ admins # {}
                                   \/ ~isAdmin /\ admins = {})
    /\ DB = pre

\* validateSingleAdmin(groupId, false) has succeeded on a group with two
\* admins.
C31_Witness ==
  /\ Returned("validateSingleAdmin")
  /\ proc[1].adm = FALSE
  /\ Cardinality(AdminsIn(DB, proc[1].g)) = 2
  /\ proc[1].result = "ok"

(* ------------------------------ C32 ----------------------------------- *)
MemberOps ==
  {"validateUserGroupMembership", "purchase", "consume", "adjust",
   "contribute"}

\* Caller p makes a call that begins with validateUserGroupMembership.
Begins(p) == proc[p].pc = "idle" /\ proc'[p].op \in MemberOps

\* Both mirrors of the membership the call of p is about exist.
BothMirrors(p) ==
  /\ userGroups[<<proc'[p].u, proc'[p].g>>].exists
  /\ groupMembers[<<proc'[p].u, proc'[p].g>>].exists

NotMemberIffMirrorMissing ==
  \A p \in Procs :
    Begins(p) =>
      /\ proc'[p].result = "NotMember" <=> ~BothMirrors(p)
      /\ (proc'[p].op = "validateUserGroupMembership" /\ BothMirrors(p))
           => proc'[p].result = "ok"
      /\ ~BothMirrors(p) => /\ proc'[p].pc = "done"
                            /\ proc'[p].pend = {}
                            /\ dbvars' = dbvars

Message(result) ==
  CASE result = "UserNotFound" -> <<"User", "not", "found">>
    [] result = "GroupNotFound" -> <<"Group", "not", "found">>
    [] result = "NotMember" ->
         <<"User", "is", "not", "a", "member", "of", "this", "group">>
    [] result \in {"MembershipExists", "AlreadyMember"} ->
         <<"User", "is", "already", "a", "member", "of", "this", "group">>
    [] result = "AdminConflict" -> <<"Group", "already", "has", "an", "admin">>
    [] result = "MustHaveAdmin" -> <<"Group", "must", "have", "an", "admin">>
    [] result = "NotAdmin" ->
         <<"Only", "group", "admins", "can", "perform", "this", "action">>
    [] result = "ZeroAmount" -> <<"Amount", "cannot", "be", "zero">>
    [] result = "PositiveBalanceRejected" ->
         <<"User", "balance", "cannot", "be", "positive.", "Maximum",
           "payment", "allowed:", "n">>
    [] result = "NoActiveBucket" ->
         <<"User", "has", "no", "active", "bucket">>
    [] result = "BucketNotFound" -> <<"Active", "bucket", "not", "found">>
    [] result = "InsufficientUnits" ->
         <<"Insufficient", "units", "in", "active", "bucket.", "Available:",
           "n,", "requested:", "n">>
    [] result = "NonPositiveAmount" ->
         <<"Transaction", "amount", "must", "be", "positive">>
    [] result = "DuplicateRequest" ->
         <<"User", "already", "has", "a", "pending", "join", "request", "for",
           "this", "group">>
    [] result = "RequestNotFound" -> <<"Join", "request", "not", "found">>
    [] result = "NotPending" -> <<"Join", "request", "is", "not", "pending">>
    [] OTHER -> <<>>

toLowerCase(message) ==
  [i \in DOMAIN message |->
     CASE message[i] = "User" -> "user"
       [] message[i] = "Group" -> "group"
       [] message[i] = "Only" -> "only"
       [] message[i] = "Amount" -> "amount"
       [] message[i] = "Maximum" -> "maximum"
       [] message[i] = "Active" -> "active"
       [] message[i] = "Insufficient" -> "insufficient"
       [] message[i] = "Available:" -> "available:"
       [] message[i] = "Transaction" -> "transaction"
       [] message[i] = "Join" -> "join"
       [] OTHER -> message[i]]

includes(message, phrase) ==
  \E i \in 1..(Len(message) - Len(phrase) + 1) :
    SubSeq(message, i, i + Len(phrase) - 1) = phrase

\* The status of the response to an Error that is no AppError.
errorHandler(message) ==
  LET errorMessage == toLowerCase(message) IN
  IF \/ includes(errorMessage, <<"missing">>)
     \/ includes(errorMessage, <<"invalid">>)
     \/ includes(errorMessage, <<"less", "than", "0">>)
     \/ includes(errorMessage,
                 <<"withdraw", "more", "than", "current", "balance">>)
     \/ includes(errorMessage, <<"insufficient", "funds", "in", "kitty">>)
    THEN 400
  ELSE IF \/ includes(errorMessage, <<"not", "found">>)
          \/ includes(errorMessage, <<"not", "a", "member">>)
    THEN 404
  ELSE IF includes(errorMessage, <<"already", "a", "member">>)
    THEN 409
  ELSE 500

\* The status of the response to the call of p that has returned: a body the
\* route's validation refuses is answered 400 by the validation itself, an
\* Error of the service goes through asyncHandler to errorHandler.
statusCode(p) ==
  IF proc[p].result = "ok" THEN 200
  ELSE IF proc[p].result = "MissingReason" THEN 400
  ELSE errorHandler(Message(proc[p].result))

(* ------------------------------ C33 ------------------------------------ *)
\* The status the documentation gives the failure the call of p ended with,
\* 0 where it names none.
DocumentedStatus(p) ==
  LET c == proc[p] IN
  IF c.op = "consume" /\ c.result \in {"NoActiveBucket", "InsufficientUnits"}
    THEN 400
  ELSE IF c.op = "adjust"
          /\ c.result \in {"NotAdmin", "ZeroAmount", "PositiveBalanceRejected"}
    THEN 400
  ELSE IF c.op = "join" /\ c.result = "AdminConflict" THEN 409
  ELSE IF c.result \in {"UserNotFound", "GroupNotFound", "RequestNotFound",
                        "NotMember"}
    THEN 404
  ELSE IF c.result \in {"MembershipExists", "AlreadyMember"} THEN 409
  ELSE 0

\* C33: through the HTTP error handler every documented business-rule failure
\* gets its documented 4xx status and never 500: no active bucket and
\* insufficient units of a consume 400; not an admin, zero amount and positive
\* balance of a balance update 400; a second admin of a join 409; not found
\* and not a member 404; already a member 409.
C33_DocumentedStatus ==
  \A p \in Procs :
    (proc[p].pc = "done" /\ DocumentedStatus(p) # 0)
      => statusCode(p) = DocumentedStatus(p)

(* ------------------------------ C34 ------------------------------------ *)
CompletedIffEmpty(db) ==
  \A b \in BucketIds :
    db.buckets[b].exists =>
      (db.buckets[b].status = "completed" <=> db.buckets[b].remainingUnits = 0)

\* C34: in every state reached by purchase and consume calls that do not
\* overlap, and also when two consume calls on one bucket overlap, one
\* emptying it and one not, a bucket has status completed if and only if its
\* remainingUnits is 0.
C34_CompletedIffEmpty == CompletedIffEmpty(DB)

(* ------------------------------ C35 ------------------------------------ *)
UnitsWithinBucket ==
  \A b \in BucketIds :
    buckets[b].exists =>
      /\ 0 <= buckets[b].remainingUnits
      /\ buckets[b].remainingUnits <= buckets[b].unitsInBucket

UnitsOnlyDecrease ==
  \A b \in BucketIds :
    buckets[b].exists =>
      /\ buckets'[b].exists
      /\ buckets'[b].unitsInBucket = buckets[b].unitsInBucket
      /\ buckets'[b].remainingUnits <= buckets[b].remainingUnits

\* C35: for every bucket, under any interleaving of purchase and consume
\* calls with units >= 1, 0 <= remainingUnits <= unitsInBucket in every
\* state, unitsInBucket never changes after the bucket's creation, and
\* remainingUnits never increases.
C35_UnitsOnlyDecrease == []UnitsWithinBucket /\ [][UnitsOnlyDecrease]_vars

(* ------------------------------ C36 ------------------------------------ *)
\* C36: in any sequence of purchase and consume calls that do not overlap,
\* whenever a member owns a bucket with remainingUnits > 0 the member's
\* activeBucketId is not null, a consume of 1 unit by a member with units
\* left succeeds and takes exactly one unit, and a consume of 1 unit by a
\* member with no unit left fails NoActiveBucket and writes nothing: repeated,
\* consume(1) succeeds as many times as the sum of the member's
\* remainingUnits and only then fails.
C36_EveryUnitConsumable ==
  /\ Quiet =>
       \A m \in Memberships :
         SumRemainingUnits(DB, m) > 0 =>
           /\ userGroups[m].activeBucketId # NullId
           /\ groupMembers[m].activeBucketId # NullId
  /\ (Returned("consume") /\ proc[1].x = 1 /\ IsMember(pre, Caller)) =>
       IF SumRemainingUnits(pre, Caller) > 0
         THEN /\ proc[1].result = "ok"
              /\ SumRemainingUnits(DB, Caller)
                   = SumRemainingUnits(pre, Caller) - 1
         ELSE /\ proc[1].result = "NoActiveBucket"
              /\ DB = pre

\* A member has used up two buckets one unit at a time, and the next consume
\* of 1 unit has failed.
C36_Witness ==
  /\ Returned("consume") /\ proc[1].x = 1
  /\ proc[1].result = "NoActiveBucket"
  /\ Cardinality(BucketsOf(pre, Caller)) >= 2
  /\ SumRemainingUnits(pre, Caller) = 0
  /\ \A r \in BagToSet(consumption) : r.units = 1
  /\ ConsumedBy(pre, Caller) = SumUnitsInBucket(pre, Caller)

(* ------------------------------ C37 ------------------------------------ *)
\* The sum of the amounts of the calls that overlapped.
Adjusted == SumOver([q \in Procs |-> proc[q].x], Procs)

\* C37: once adjustBalance calls that overlapped on one membership have all
\* succeeded, the balance of the membership, in both mirrors, is the balance
\* before the calls plus the sum of their amounts.
C37_NoAdjustmentLost ==
  (/\ Quiet
   /\ \A q \in Procs : /\ proc[q].op = "adjust"
                       /\ proc[q].result = "ok"
                       /\ <<proc[q].u, proc[q].g>> = Caller
   /\ pre.userGroups[Caller].balance = pre.groupMembers[Caller].balance)
    => /\ userGroups[Caller].balance
            = pre.userGroups[Caller].balance + Adjusted
       /\ groupMembers[Caller].balance
            = pre.groupMembers[Caller].balance + Adjusted

(* ------------------------------ C38 ------------------------------------ *)
RECURSIVE BagAmounts(_, _)
BagAmounts(bag, R) ==
  IF R = {} THEN 0
  ELSE LET r == CHOOSE r \in R : TRUE IN
       r.amount * CopiesIn(r, bag) + BagAmounts(bag, R \ {r})

\* The sum of the amounts of the KittyTransaction records of group g.
KittySum(db, g) ==
  BagAmounts(db.transactions,
             {r \in BagToSet(db.transactions) : r.groupId = g})

\* C38: after any sequence of createGroup and contribute calls that do not
\* overlap, the kitty balance of a group equals the sum of the amounts of
\* the group's KittyTransaction records, and a contribute that fails
\* NotMember or NonPositiveAmount adds no record and changes no balance.
C38_KittyMatchesTransactions ==
  /\ \A g \in GroupIds : groups[g].kittyBalance = KittySum(DB, g)
  /\ (/\ Returned("contribute")
      /\ proc[1].result \in {"NotMember", "NonPositiveAmount"})
       => /\ transactions = pre.transactions
          /\ groups = pre.groups
          /\ DB = pre

\* A user who is no member has tried to contribute to a kitty that two
\* contributions have filled.
C38_Witness ==
  /\ Returned("contribute")
  /\ proc[1].result = "NotMember"
  /\ BagCardinality(transactions) >= 2
  /\ groups[proc[1].g].kittyBalance = KittySum(DB, proc[1].g)
  /\ groups[proc[1].g].kittyBalance >= 2

(* ------------------------------ C39 ------------------------------------ *)
\* C39: in every reachable state, also between the two mirror writes of a
\* join, exactly one of validateUserGroupMembership and
\* validateUserNotInGroup succeeds for a user and a group: no pair is
\* rejected both as already a member and as not a member.
C39_ExactlyOneValidator ==
  \A u \in UserIds, g \in GroupIds :
    validateUserGroupMembership(u, g) # validateUserNotInGroup(u, g)

(* ------------------------------ C40 ------------------------------------ *)
\* The list a purchase has returned to a member who had no active bucket.
Batch == proc[1].ids

\* C40: the buckets of one purchase of three or more buckets become the
\* active bucket in the order of the returned bucketIds list: while a bucket
\* of the list is active the buckets before it in the list are used up and
\* the buckets after it are untouched, and no bucket is active only when all
\* are used up, also when the buckets carry the same purchasedAt.
C40_BatchOrder ==
  (ReturnedOk("purchase") /\ Len(Batch) >= 3 /\ proc[1].act = NullId) =>
    LET active == userGroups[Caller].activeBucketId IN
    /\ active = NullId =>
         \A j \in 1..Len(Batch) : buckets[Batch[j]].remainingUnits = 0
    /\ active # NullId => \E i \in 1..Len(Batch) : active = Batch[i]
    /\ \A i \in 1..Len(Batch) :
         active = Batch[i] =>
           /\ \A j \in 1..(i - 1) : buckets[Batch[j]].remainingUnits = 0
           /\ \A j \in (i + 1)..Len(Batch) :
                buckets[Batch[j]].remainingUnits
                  = buckets[Batch[j]].unitsInBucket

====
